---- MODULE Spec2Model ----
(***************************************************************************)
(* Two independent line-protocol adapters of docx-corpus:                  *)
(*   packages/embedder/python/embed.py            (the embedding CLI)      *)
(*   packages/extractor/python/extract_server.py  (the extraction server)  *)
(* Each is one sequential process.  SpecEmbed runs the embedding CLI and   *)
(* SpecServer the extraction server; the variables of the process that is  *)
(* not running keep their initial values.                                  *)
(*                                                                         *)
(* What the libraries do is the environment: whether a model loads,      *)
(* whether an inference call raises, how many vectors it returns, whether  *)
(* a file exists, whether its conversion raises.  A backend returns        *)
(* vectors of the size it reports for its model.                           *)
(* An embedding vector is represented by its length and by the text it was *)
(* computed from (the code never looks at the components); a file's        *)
(* converted document by the file's path.                                  *)
(***************************************************************************)
EXTENDS Integers, Sequences, FiniteSets, TLC

\* ------------------------------------------------------------------ bounds
MaxLines == 3      \* lines on the embedding CLI's stdin
MaxDim == 2        \* largest embedding dimension a local model reports
MaxIn == 2         \* lines on the extraction server's stdin
MaxLineLen == 2    \* characters of one line of the extraction server's stdin

Min(a, b) == IF a < b THEN a ELSE b

\* All sequences over S of length at most n.
SeqUpTo(S, n) == UNION {[1..k -> S] : k \in 0..n}

\* ======================================================================
\*                           embed.py
\* ======================================================================
VARIABLES
  model,        \* args.model
  batch,        \* args.batch
  apiKey,       \* os.environ has a non-empty VOYAGE_API_KEY
  stdin,        \* the lines of sys.stdin
  e_pc,         \* position of main(): "start","read","emit","single","exit"
  embedder,     \* the backend get_embedder returned: "none","voyage","local"
  model_id,     \* the identifier handed to SentenceTransformer ("" when none)
  dimensions,   \* the dimensions get_embedder returned (0 before)
  vectorLen,    \* length of the vectors the selected backend produces (0 before)
  nread,        \* lines of stdin consumed by the batch loop
  docs,         \* the parsed records
  embeddings,   \* what the backend returned
  nemit,        \* iterations of the output loop that have run
  stdout,       \* result objects printed to sys.stdout
  stderr,       \* what reached sys.stderr
  exitStatus,   \* -1 while running, then the process's exit status
  embedCalls,   \* number of calls of embedder(texts)
  raised        \* the exception get_embedder or embedder(texts) raised ("" if none)

evars == <<model, batch, apiKey, stdin, e_pc, embedder, model_id, dimensions, vectorLen,
           nread, docs, embeddings, nemit, stdout, stderr, exitStatus, embedCalls,
           raised>>

\* ======================================================================
\*                        extract_server.py
\* ======================================================================
VARIABLES
  s_pc,         \* position of main(): "start","loading","constructed","serving",
                \* "extract","eof","crashed"
  s_stdin,      \* the lines of sys.stdin, each a sequence of characters
  s_pos,        \* lines consumed by `for line in sys.stdin`
  s_stdout,     \* objects printed to sys.stdout
  sys_stderr,   \* the stream sys.stderr is bound to: "terminal" or "devnull"
  old_stderr,   \* suppress_stderr's local old_stderr
  converter,    \* the DocumentConverter instance main holds (0: none yet)
  built,        \* calls of the DocumentConverter constructor so far
  file_path,    \* the path being extracted
  converted,    \* one entry per converter.convert call: the instance and path
  swallowed,    \* library diagnostics written to the null device
  leaked        \* library diagnostics and tracebacks written to the terminal

svars == <<s_pc, s_stdin, s_pos, s_stdout, sys_stderr, old_stderr, converter,
           built, file_path, converted, swallowed, leaked>>

vars == <<evars, svars>>

ServerIdle ==
  /\ s_pc = "start"
  /\ s_stdin = <<>>
  /\ s_pos = 0
  /\ s_stdout = <<>>
  /\ sys_stderr = "terminal"
  /\ old_stderr = "terminal"
  /\ converter = 0
  /\ built = 0
  /\ file_path = <<>>
  /\ converted = <<>>
  /\ swallowed = 0
  /\ leaked = 0

\* --model values: the three named ones and one raw local identifier.
ModelNames == {"voyage-lite", "minilm", "bge-m3", "custom/model"}

Ids == {"a", "b"}

\* A line of the batch input.  "json" lines hold a JSON object with the keys
\* listed; "garbage" is a non-blank line json.loads rejects; "blank" is a
\* line that is empty once stripped.
BlankLine == [kind |-> "blank", keys |-> {}, id |-> "", text |-> ""]
GarbageLine == [kind |-> "garbage", keys |-> {}, id |-> "", text |-> ""]
Record(i) == [kind |-> "json", keys |-> {"id", "text"}, id |-> i, text |-> i]
NoIdLine == [kind |-> "json", keys |-> {"text"}, id |-> "", text |-> "a"]
NoTextLine == [kind |-> "json", keys |-> {"id"}, id |-> "a", text |-> ""]
InputLines == {BlankLine, GarbageLine, NoIdLine, NoTextLine} \cup {Record(i) : i \in Ids}

\* line.strip() is falsy
IsBlank(line) == line.kind = "blank"

\* json.loads(line): raises on garbage, else the object
JsonLoadsRaises(line) == line.kind = "garbage"
JsonLoads(line) == [keys |-> line.keys, id |-> line.id, text |-> line.text]

\* d[k] raises KeyError
KeyError(d, k) == k \notin d.keys

\* the dimensions get_embedder states for the remote backend
VoyageDims == 1024

\* the length of the vectors the remote model voyage-3.5-lite returns
Voyage35LiteOutput == 1024

\* model_map.get(model_name, model_name)
ModelMap(model_name) ==
  CASE model_name = "minilm" -> "all-MiniLM-L6-v2"
    [] model_name = "bge-m3" -> "BAAI/bge-m3"
    [] OTHER -> model_name

\* The JSON error object of an except clause, and the traceback the
\* interpreter prints for an exception nothing catches.
ErrorObject(msg) == [json |-> TRUE, error |-> msg]
Traceback(msg) == [json |-> FALSE, error |-> msg]

\* sys.exit(code) / the interpreter ending on an uncaught exception
Exit(code) == /\ e_pc' = "exit"
              /\ exitStatus' = code

\* the except clauses of lines 51-53, 70-72 and 90-92: the error object
\* goes to sys.stderr; the pair is <<stdout, stderr>> afterwards
\* (faulty variant: the error object printed to sys.stdout)
ErrorToStdout(out, err, msg) == <<Append(out, ErrorObject(msg)), err>>
ReportError(out, err, msg) == <<out, Append(err, ErrorObject(msg))>>

\* what get_embedder returns as dimensions (lines 23, 34, 40)
\* (faulty variant: 1024 stated for every model)
GetEmbedderDimsWrong(model_name, model_dims) == VoyageDims
GetEmbedderDims(model_name, model_dims) ==
  IF model_name = "voyage-lite" THEN VoyageDims ELSE model_dims

GetEmbedder ==
  /\ e_pc = "start"
  /\ \E loads \in BOOLEAN, dims \in 1..MaxDim :
       LET failure == IF ~loads THEN "load"
                      ELSE IF model = "voyage-lite" /\ ~apiKey THEN "VOYAGE_API_KEY"
                      ELSE ""
       IN
       IF failure # ""
       THEN \* an import, the missing key or SentenceTransformer(model_id) raises
            /\ raised' = failure
            /\ stdout' = ReportError(stdout, stderr, failure)[1]
            /\ stderr' = ReportError(stdout, stderr, failure)[2]
            /\ Exit(1)
            /\ UNCHANGED <<embedder, model_id, dimensions, vectorLen>>
       ELSE IF model = "voyage-lite"
       THEN /\ embedder' = "voyage"
            /\ vectorLen' = Voyage35LiteOutput
            /\ dimensions' = GetEmbedderDims(model, vectorLen')
            /\ e_pc' = IF batch THEN "read" ELSE "single"
            /\ UNCHANGED <<model_id, stdout, stderr, exitStatus, raised>>
       ELSE /\ embedder' = "local"
            /\ model_id' = ModelMap(model)
            \* model.get_sentence_embedding_dimension()
            /\ vectorLen' = dims
            /\ dimensions' = GetEmbedderDims(model, vectorLen')
            /\ e_pc' = IF batch THEN "read" ELSE "single"
            /\ UNCHANGED <<stdout, stderr, exitStatus, raised>>
  /\ UNCHANGED <<model, batch, apiKey, stdin, nread, docs, embeddings, nemit,
                 embedCalls>>
  /\ UNCHANGED svars

\* embedder(texts) returning n vectors: the k-th is the vector of texts[k]
\* while there is such a text.
Vectors(texts, n) ==
  [k \in 1..n |-> [len |-> vectorLen,
                   of |-> IF k <= Len(texts) THEN texts[k] ELSE "?"]]

\* lines 58-61, one iteration
ReadLine ==
  /\ e_pc = "read"
  /\ nread < Len(stdin)
  /\ nread' = nread + 1
  /\ LET line == stdin[nread + 1] IN
       IF IsBlank(line)
       THEN UNCHANGED <<docs, stderr, e_pc, exitStatus>>
       ELSE IF JsonLoadsRaises(line)
       THEN /\ stderr' = Append(stderr, Traceback("JSONDecodeError"))
            /\ Exit(1)
            /\ UNCHANGED docs
       ELSE /\ docs' = Append(docs, JsonLoads(line))
            /\ UNCHANGED <<stderr, e_pc, exitStatus>>
  /\ UNCHANGED <<model, batch, apiKey, stdin, embedder, model_id, dimensions, vectorLen,
                 embeddings, nemit, stdout, embedCalls, raised>>
  /\ UNCHANGED svars

\* `if not docs`
\* (faulty variant: the empty batch is not short-circuited)
NoDocsNever(d) == FALSE
NoDocs(d) == Len(d) = 0

\* lines 63-72, once stdin is exhausted
EmbedBatch ==
  /\ e_pc = "read"
  /\ nread = Len(stdin)
  /\ IF NoDocs(docs)
     THEN /\ Exit(0)
          /\ UNCHANGED <<stdout, stderr, embeddings, embedCalls, raised>>
     ELSE IF \E k \in 1..Len(docs) : KeyError(docs[k], "text")
     THEN /\ stderr' = Append(stderr, Traceback("KeyError"))
          /\ Exit(1)
          /\ UNCHANGED <<stdout, embeddings, embedCalls, raised>>
     ELSE LET texts == [k \in 1..Len(docs) |-> docs[k].text] IN
          /\ embedCalls' = embedCalls + 1
          /\ \/ \* the call raises
                /\ raised' = "inference"
                /\ stdout' = ReportError(stdout, stderr, "inference")[1]
                /\ stderr' = ReportError(stdout, stderr, "inference")[2]
                /\ Exit(1)
                /\ UNCHANGED embeddings
             \/ \E n \in 0..(Len(texts) + 1) :
                  /\ embeddings' = Vectors(texts, n)
                  /\ e_pc' = "emit"
                  /\ UNCHANGED <<stdout, stderr, exitStatus, raised>>
  /\ UNCHANGED <<model, batch, apiKey, stdin, embedder, model_id, dimensions, vectorLen,
                 nread, docs, nemit>>
  /\ UNCHANGED svars

\* zip(docs, embeddings)
\* (faulty variant: the records paired in reverse order)
ZipSwapped(ds, es) ==
  [k \in 1..Min(Len(ds), Len(es)) |->
     [doc |-> ds[Min(Len(ds), Len(es)) + 1 - k], emb |-> es[k]]]
Zip(ds, es) == [k \in 1..Min(Len(ds), Len(es)) |-> [doc |-> ds[k], emb |-> es[k]]]

\* the result object of lines 75-79
BatchResult(doc, emb, dims) ==
  [kind |-> "result", id |-> doc.id, embedding |-> emb, dimensions |-> dims]

\* lines 74-80, one iteration, and falling off the end of main
EmitLine ==
  /\ e_pc = "emit"
  /\ LET pairs == Zip(docs, embeddings) IN
       IF nemit < Len(pairs)
       THEN LET p == pairs[nemit + 1] IN
            /\ nemit' = nemit + 1
            /\ IF KeyError(p.doc, "id")
               THEN /\ stderr' = Append(stderr, Traceback("KeyError"))
                    /\ Exit(1)
                    /\ UNCHANGED stdout
               ELSE /\ stdout' = Append(stdout, BatchResult(p.doc, p.emb, dimensions))
                    /\ UNCHANGED <<stderr, e_pc, exitStatus>>
       ELSE /\ Exit(0)
            /\ UNCHANGED <<nemit, stdout, stderr>>
  /\ UNCHANGED <<model, batch, apiKey, stdin, embedder, model_id, dimensions, vectorLen,
                 nread, docs, embeddings, embedCalls, raised>>
  /\ UNCHANGED svars

\* sys.stdin.read().strip(): the non-blank lines, as one text ("" if none)
StdinText == IF \A k \in 1..Len(stdin) : IsBlank(stdin[k]) THEN "" ELSE "text"

\* the result object of lines 94-97
SingleResult(emb, dims) ==
  [kind |-> "result", id |-> "", embedding |-> emb, dimensions |-> dims]

\* lines 83-98
Single ==
  /\ e_pc = "single"
  /\ nread' = Len(stdin)
  /\ IF StdinText = ""
     THEN /\ stderr' = Append(stderr, ErrorObject("No text provided"))
          /\ Exit(1)
          /\ UNCHANGED <<embeddings, embedCalls, stdout, raised>>
     ELSE /\ embedCalls' = embedCalls + 1
          /\ \/ /\ raised' = "inference"
                /\ stdout' = ReportError(stdout, stderr, "inference")[1]
                /\ stderr' = ReportError(stdout, stderr, "inference")[2]
                /\ Exit(1)
                /\ UNCHANGED embeddings
             \/ \E n \in 0..(Len(<<StdinText>>) + 1) :
                  /\ embeddings' = Vectors(<<StdinText>>, n)
                  /\ UNCHANGED raised
                  /\ IF n = 0
                     THEN \* embeddings[0] raises IndexError
                          /\ stderr' = Append(stderr, Traceback("IndexError"))
                          /\ Exit(1)
                          /\ UNCHANGED stdout
                     ELSE /\ stdout' = Append(stdout,
                                 SingleResult(embeddings'[1], dimensions))
                          /\ Exit(0)
                          /\ UNCHANGED stderr
  /\ UNCHANGED <<model, batch, apiKey, stdin, embedder, model_id, dimensions, vectorLen,
                 docs, nemit>>
  /\ UNCHANGED svars

InitEmbed ==
  /\ ServerIdle
  /\ model \in ModelNames
  /\ batch \in BOOLEAN
  /\ apiKey \in BOOLEAN
  /\ stdin \in SeqUpTo(InputLines, MaxLines)
  /\ e_pc = "start"
  /\ embedder = "none"
  /\ model_id = ""
  /\ dimensions = 0
  /\ vectorLen = 0
  /\ nread = 0
  /\ docs = <<>>
  /\ embeddings = <<>>
  /\ nemit = 0
  /\ stdout = <<>>
  /\ stderr = <<>>
  /\ exitStatus = -1
  /\ embedCalls = 0
  /\ raised = ""

NextEmbed == GetEmbedder \/ ReadLine \/ EmbedBatch \/ EmitLine \/ Single

SpecEmbed == InitEmbed /\ [][NextEmbed]_vars

\* ======================================================================
\*                        extract_server.py
\* ======================================================================
Chars == {" ", "a", "b"}
ServerLines == SeqUpTo(Chars, MaxLineLen)

\* The filesystem and the documents on it: "a" is a DOCX file Docling
\* converts, "b" a file whose conversion raises; no other path exists.
ExistingFiles == {<<"a">>, <<"b">>}
CorruptFiles == {<<"b">>}

RECURSIVE LStrip(_)
LStrip(s) == IF s # <<>> /\ Head(s) = " " THEN LStrip(Tail(s)) ELSE s

RECURSIVE RStrip(_)
RStrip(s) ==
  IF s # <<>> /\ s[Len(s)] = " " THEN RStrip(SubSeq(s, 1, Len(s) - 1)) ELSE s

\* line.strip()
\* (faulty variant: the line used as read)
NoStrip(line) == line
Strip(line) == RStrip(LStrip(line))

\* `not file_path`
NotFilePath(path) == path = <<>>

\* Path(file_path).exists()
PathExists(path) == path \in ExistingFiles

\* The objects main prints.  "text" stands for the success payload of
\* extract (text, the counts derived from it, and the stripped extraction):
\* the document of the path converted.
ReadyLine == [kind |-> "ready", success |-> TRUE, error |-> <<>>, text |-> <<>>]
\* (faulty variant: the ready line printed a second time)
InitializedAsReady == ReadyLine
InitializedLine ==
  [kind |-> "initialized", success |-> TRUE, error |-> <<>>, text |-> <<>>]
Success(result) ==
  [kind |-> "result", success |-> TRUE, error |-> <<>>, text |-> result]
Failure(msg) == [kind |-> "result", success |-> FALSE, error |-> msg, text |-> <<>>]

\* line 85
\* (faulty variant: the message without the path)
NotFoundNoPath(path) == Failure(<<"File not found: ">>)
NotFound(path) == Failure(<<"File not found: ", path>>)

\* str(e) of the exception a corrupt document raises
ConversionError(path) == <<"conversion failed">>

\* extract(converter, file_path): the document of the path
Extract(path) == <<"document of ", path>>

\* line 69
PrintReady ==
  /\ s_pc = "start"
  /\ s_stdout' = Append(s_stdout, ReadyLine)
  /\ s_pc' = "loading"
  /\ UNCHANGED <<s_stdin, s_pos, sys_stderr, old_stderr, converter, built,
                 file_path, converted, swallowed, leaked>>
  /\ UNCHANGED evars

\* line 72: the constructor is called; it returns a new instance, or raises
\* and nothing catches it (the traceback goes to the terminal)
Construct ==
  /\ s_pc = "loading"
  /\ built' = built + 1
  /\ \/ /\ converter' = built'
        /\ s_pc' = "constructed"
        /\ UNCHANGED leaked
     \/ /\ leaked' = leaked + 1
        /\ s_pc' = "crashed"
        /\ UNCHANGED converter
  /\ UNCHANGED <<s_stdin, s_pos, s_stdout, sys_stderr, old_stderr, file_path,
                 converted, swallowed>>
  /\ UNCHANGED evars

\* line 75
PrintInitialized ==
  /\ s_pc = "constructed"
  /\ s_stdout' = Append(s_stdout, InitializedLine)
  /\ s_pc' = "serving"
  /\ UNCHANGED <<s_stdin, s_pos, sys_stderr, old_stderr, converter, built,
                 file_path, converted, swallowed, leaked>>
  /\ UNCHANGED evars

\* lines 78-89: one line read, up to entering suppress_stderr (lines 27-29)
ServeLine ==
  /\ s_pc = "serving"
  /\ s_pos < Len(s_stdin)
  /\ s_pos' = s_pos + 1
  /\ LET path == Strip(s_stdin[s_pos + 1]) IN
       IF NotFilePath(path)
       THEN UNCHANGED <<s_pc, s_stdout, sys_stderr, old_stderr, file_path>>
       ELSE IF ~PathExists(path)
       THEN /\ s_stdout' = Append(s_stdout, NotFound(path))
            /\ UNCHANGED <<s_pc, sys_stderr, old_stderr, file_path>>
       ELSE /\ file_path' = path
            /\ old_stderr' = sys_stderr
            /\ sys_stderr' = "devnull"
            /\ s_pc' = "extract"
            /\ UNCHANGED s_stdout
  /\ UNCHANGED <<s_stdin, converter, built, converted, swallowed, leaked>>
  /\ UNCHANGED evars

\* suppress_stderr's `finally` (lines 32-33): what sys.stderr is bound to
\* once the with block is left, normally or by an exception
\* (faulty variant: no finally, the restore is skipped by an exception)
RestoreUnlessRaised(old, cur, raises) == IF raises THEN cur ELSE old
Restore(old, cur, raises) == old

\* the except clause of lines 93-94: print the failure and go on with the
\* next line
\* (faulty variant: the exception is not caught and ends the process)
Propagate(out, msg) == [out |-> out, pc |-> "crashed"]
Except(out, msg) == [out |-> Append(out, Failure(msg)), pc |-> "serving"]

\* the converter line 90 hands to extract
\* (faulty variant: a converter constructed for the call)
FreshConverter(conv, n) == n + 1
ConverterInUse(conv, n) == conv

\* lines 89-94: extract inside suppress_stderr, then the print
ExtractDocument ==
  /\ s_pc = "extract"
  /\ LET raises == file_path \in CorruptFiles
         used == ConverterInUse(converter, built)
     IN
       /\ converted' = Append(converted, [converter |-> used, path |-> file_path])
       \* Docling writes its diagnostics to sys.stderr while converting
       /\ IF sys_stderr = "devnull"
          THEN swallowed' = swallowed + 1 /\ UNCHANGED leaked
          ELSE leaked' = leaked + 1 /\ UNCHANGED swallowed
       /\ sys_stderr' = Restore(old_stderr, sys_stderr, raises)
       /\ IF raises
          THEN /\ s_stdout' = Except(s_stdout, ConversionError(file_path)).out
               /\ s_pc' = Except(s_stdout, ConversionError(file_path)).pc
          ELSE /\ s_stdout' = Append(s_stdout, Success(Extract(file_path)))
               /\ s_pc' = "serving"
  /\ UNCHANGED <<s_stdin, s_pos, old_stderr, file_path, converter, built>>
  /\ UNCHANGED evars

\* sys.stdin is closed: the loop and main end
EndOfInput ==
  /\ s_pc = "serving"
  /\ s_pos = Len(s_stdin)
  /\ s_pc' = "eof"
  /\ UNCHANGED <<s_stdin, s_pos, s_stdout, sys_stderr, old_stderr, converter,
                 built, file_path, converted, swallowed, leaked>>
  /\ UNCHANGED evars

EmbedIdle ==
  /\ model = "minilm"
  /\ batch = FALSE
  /\ apiKey = FALSE
  /\ stdin = <<>>
  /\ e_pc = "start"
  /\ embedder = "none"
  /\ model_id = ""
  /\ dimensions = 0
  /\ vectorLen = 0
  /\ nread = 0
  /\ docs = <<>>
  /\ embeddings = <<>>
  /\ nemit = 0
  /\ stdout = <<>>
  /\ stderr = <<>>
  /\ exitStatus = -1
  /\ embedCalls = 0
  /\ raised = ""

InitServer ==
  /\ EmbedIdle
  /\ s_stdin \in SeqUpTo(ServerLines, MaxIn)
  /\ s_pc = "start"
  /\ s_pos = 0
  /\ s_stdout = <<>>
  /\ sys_stderr = "terminal"
  /\ old_stderr = "terminal"
  /\ converter = 0
  /\ built = 0
  /\ file_path = <<>>
  /\ converted = <<>>
  /\ swallowed = 0
  /\ leaked = 0

NextServer ==
  PrintReady \/ Construct \/ PrintInitialized \/ ServeLine \/ ExtractDocument
    \/ EndOfInput

SpecServer == InitServer /\ [][NextServer]_vars

\* ======================================================================
\*                     Properties of the embedding CLI
\* ======================================================================
\* The well-formed {id, text} records of stdin, in stream order.
InputRecords == SelectSeq(stdin, LAMBDA l : l.kind # "blank")
WellFormed(l) == l.kind = "json" /\ l.keys = {"id", "text"}
WellFormedBatch ==
  /\ batch
  /\ Len(InputRecords) >= 1
  /\ \A k \in 1..Len(InputRecords) : WellFormed(InputRecords[k])
\* The run is over and the backend call was made and did not raise.
BatchSucceeded == e_pc = "exit" /\ embedCalls = 1 /\ raised = ""

\* C1, as claimed: a batch of N >= 1 well-formed records whose backend call
\* succeeds prints exactly N result lines, the k-th with the k-th record's
\* id, whatever number of vectors the backend returned.
C1_ExactlyNLines ==
  (WellFormedBatch /\ BatchSucceeded) =>
     /\ Len(stdout) = Len(InputRecords)
     /\ \A k \in 1..Len(stdout) : stdout[k].id = InputRecords[k].id

\* C1, amended: such a batch prints exactly min(N, M) result lines, M being
\* the number of vectors the backend returned, so exactly N when the backend
\* returns at least N vectors; the k-th line carries the k-th record's id,
\* and while the output loop runs stdout is a prefix of that.
C1_MinLines ==
  (WellFormedBatch /\ embedCalls = 1 /\ raised = "") =>
     /\ Len(stdout) <= Min(Len(InputRecords), Len(embeddings))
     /\ e_pc = "exit" => Len(stdout) = Min(Len(InputRecords), Len(embeddings))
     /\ e_pc = "exit" => exitStatus = 0
     /\ \A k \in 1..Len(stdout) :
          /\ stdout[k].kind = "result"
          /\ stdout[k].id = InputRecords[k].id

\* A finished batch with a blank line in the input, as many vectors as
\* records, and two result lines with different ids.
C1_Witness ==
  /\ WellFormedBatch /\ BatchSucceeded
  /\ Len(stdin) > Len(InputRecords)
  /\ Len(embeddings) >= Len(InputRecords)
  /\ Len(stdout) = 2
  /\ stdout[1].id # stdout[2].id

AllBlank == \A k \in 1..Len(stdin) : stdin[k].kind = "blank"

\* C6, as claimed: a batch input with zero non-blank lines ends with no
\* output line, exit status 0, and no backend call.
C6_EmptyBatchExitsZero ==
  (batch /\ AllBlank /\ e_pc = "exit") =>
     /\ stdout = <<>>
     /\ exitStatus = 0
     /\ embedCalls = 0

\* C6, amended: a batch input with zero non-blank lines never produces an
\* output line and never calls the backend; once the backend was selected
\* and loaded the run ends with status 0 and nothing on stderr, and when
\* selecting or loading it failed the run ends with status 1.
C6_EmptyBatch ==
  (batch /\ AllBlank) =>
     /\ stdout = <<>>
     /\ embedCalls = 0
     /\ (e_pc = "exit" /\ embedder # "none") => (exitStatus = 0 /\ stderr = <<>>)
     /\ (e_pc = "exit" /\ embedder = "none") => exitStatus = 1

\* An empty batch of blank lines, read to the end with a loaded backend.
C6_Witness ==
  /\ batch /\ AllBlank /\ Len(stdin) >= 2
  /\ embedder # "none"
  /\ nread = Len(stdin)
  /\ e_pc = "exit" /\ exitStatus = 0

\* C7: every result object printed, in single and in batch mode, has
\* dimensions equal to the length of its embedding, and equal to the one
\* value get_embedder returned at startup.
C7_Dimensions ==
  \A k \in 1..Len(stdout) :
     stdout[k].kind = "result" =>
        /\ stdout[k].dimensions = stdout[k].embedding.len
        /\ stdout[k].dimensions = dimensions

\* Two result lines of a local model.
C7_Witness ==
  /\ embedder = "local"
  /\ Len(stdout) >= 2
  /\ stdout[2].dimensions = MaxDim

\* C8: when backend selection, model loading or the inference call raised,
\* stderr holds exactly one JSON error object, the exit status is not zero
\* and stdout holds no line.
C8_FailureNoPartialOutput ==
  raised # "" =>
     /\ e_pc = "exit"
     /\ exitStatus # 0 /\ exitStatus # -1
     /\ stderr = <<ErrorObject(raised)>>
     /\ stdout = <<>>

\* An inference call on a batch of two or more records has raised.
C8_Witness ==
  /\ batch /\ raised = "inference"
  /\ Len(docs) >= 2
  /\ embedCalls = 1

\* ======================================================================
\*                  Properties of the extraction server
\* ======================================================================
\* Stated on the input as the caller wrote it: a line is blank when it holds
\* only whitespace, and names the path between its first and its last
\* non-blank character.
Blank(line) == \A i \in 1..Len(line) : line[i] = " "
PathOf(line) ==
  LET I == {i \in 1..Len(line) : line[i] # " "}
      lo == CHOOSE i \in I : \A j \in I : i <= j
      hi == CHOOSE i \in I : \A j \in I : j <= i
  IN SubSeq(line, lo, hi)

\* The input lines consumed so far, and the non-blank ones among them.
Consumed == SubSeq(s_stdin, 1, s_pos)
Requests == SelectSeq(Consumed, LAMBDA l : ~Blank(l))

\* The result objects on stdout: what follows the first two lines.
Results == SubSeq(s_stdout, 3, Len(s_stdout))

\* The server is between two lines (or at the end of the input).
BetweenLines == s_pc \in {"serving", "eof"}

\* C2: a result line is preceded by exactly the two startup lines, ready
\* then initialized, and a startup line is never written after a result.
C2_StartupFirst ==
  /\ Len(s_stdout) >= 1 => s_stdout[1].kind = "ready"
  /\ Len(s_stdout) >= 2 => s_stdout[2].kind = "initialized"
  /\ \A k \in 1..Len(s_stdout) : (k > 2 <=> s_stdout[k].kind = "result")

\* Results on stdout of a run that started with two paths queued.
C2_Witness ==
  /\ Len(s_stdin) >= 2
  /\ ~Blank(s_stdin[1]) /\ ~Blank(s_stdin[2])
  /\ Len(s_stdout) >= 4

\* C3, as claimed: after k input lines have been consumed, exactly k result
\* objects have been emitted.
C3_OnePerLine == BetweenLines => Len(Results) = s_pos

\* C3, amended: after k input lines have been consumed, exactly as many
\* result objects as there are non-blank lines among them have been
\* emitted (a blank line yields none), in input order, each a success
\* payload for its path or a {success: false, error} object.
C3_OnePerRequest ==
  BetweenLines =>
     /\ Len(Results) = Len(Requests)
     /\ \A k \in 1..Len(Results) :
          /\ Results[k].kind = "result"
          /\ \/ Results[k] = Success(<<"document of ", PathOf(Requests[k])>>)
             \/ /\ ~Results[k].success
                /\ Results[k].error # <<>>
                /\ Results[k].error \in
                     {<<"File not found: ", PathOf(Requests[k])>>,
                      <<"conversion failed">>}

\* A blank line between two answered paths.
C3_Witness ==
  /\ BetweenLines
  /\ Len(Requests) >= 1
  /\ Len(Consumed) > Len(Requests)
  /\ s_pos = Len(s_stdin)
  /\ ~Blank(s_stdin[s_pos])

\* C4: reading a non-blank line whose path does not exist appends exactly
\* the object {success: false, error: "File not found: <path>"} to stdout,
\* makes no converter call, and leaves the server in Serving with that line
\* consumed, so that the next line is read.
C4_FileNotFound ==
  [][(/\ s_pc = "serving"
      /\ s_pos < Len(s_stdin)
      /\ ~Blank(s_stdin[s_pos + 1])
      /\ PathOf(s_stdin[s_pos + 1]) \notin ExistingFiles)
     => /\ s_stdout' = Append(s_stdout,
             [kind |-> "result", success |-> FALSE, text |-> <<>>,
              error |-> <<"File not found: ", PathOf(s_stdin[s_pos + 1])>>])
        /\ converted' = converted
        /\ sys_stderr' = sys_stderr
        /\ s_pc' = "serving"
        /\ s_pos' = s_pos + 1]_vars

\* A line naming a missing path was answered, and so was the line after it.
C4_Witness ==
  /\ BetweenLines
  /\ Len(Requests) >= 2
  /\ Len(Results) >= 2
  /\ PathOf(Requests[1]) \notin ExistingFiles
  /\ Results[1].error = <<"File not found: ", PathOf(Requests[1])>>
  /\ Results[2].success
  /\ Len(converted) = 1

\* C5: a conversion that raises yields exactly one {success: false, error}
\* object for its line and the server keeps serving: it never stops on a
\* document, and every line after it is answered as it would have been,
\* a later valid document with a success payload.
C5_KeepsServing ==
  /\ converter # 0 => s_pc # "crashed"
  /\ BetweenLines =>
       /\ Len(Results) = Len(Requests)
       /\ \A k \in 1..Len(Results) :
            /\ PathOf(Requests[k]) \in CorruptFiles =>
                 Results[k] = [kind |-> "result", success |-> FALSE, text |-> <<>>,
                               error |-> <<"conversion failed">>]
            /\ PathOf(Requests[k]) \in ExistingFiles \ CorruptFiles =>
                 Results[k].success

\* A failed conversion followed by a successful one.
C5_Witness ==
  /\ BetweenLines
  /\ Len(Results) >= 2
  /\ PathOf(Requests[1]) \in CorruptFiles
  /\ ~Results[1].success
  /\ Results[2].success

\* C9: the converter is constructed exactly once, after the ready line and
\* before the initialized line, and every conversion, also one after a
\* failed conversion, uses that instance.
C9_OneConverter ==
  /\ built <= 1
  /\ built = 1 <=> s_pc \notin {"start", "loading"}
  /\ built = 1 => (Len(s_stdout) >= 1 /\ s_stdout[1].kind = "ready")
  /\ built = 0 => Len(s_stdout) <= 1
  /\ \A k \in 1..Len(s_stdout) :
       s_stdout[k].kind = "initialized" => (built = 1 /\ converter = 1)
  /\ s_pc \in {"serving", "extract", "eof"} => converter = 1
  /\ \A k \in 1..Len(converted) : converted[k].converter = converter

\* Two conversions, the first of which raised.
C9_Witness ==
  /\ Len(converted) >= 2
  /\ converted[1].path \in CorruptFiles
  /\ BetweenLines

\* C10: sys.stderr is bound to the null device only while a conversion
\* runs; after it, returned or raised, sys.stderr is the stream it was
\* before, only the library's diagnostics went to the null device, and
\* every conversion's result or error object is on stdout.
C10_StderrScoped ==
  /\ s_pc = "extract" <=> sys_stderr = "devnull"
  /\ s_pc # "extract" => sys_stderr = old_stderr
  /\ old_stderr = "terminal"
  /\ swallowed = Len(converted)
  /\ BetweenLines => Len(Results) >= Len(converted)
  /\ leaked = IF s_pc = "crashed" THEN 1 ELSE 0

\* The server is serving again after a conversion that raised.
C10_Witness ==
  /\ s_pc = "serving"
  /\ Len(converted) >= 1
  /\ converted[Len(converted)].path \in CorruptFiles
  /\ ~s_stdout[Len(s_stdout)].success
  /\ sys_stderr = "terminal"
====
